---------------------------- MODULE Spec2Model ----------------------------
(***************************************************************************)
(* A model of the two "Dragon Leader Faith" review clients of the          *)
(* repository:                                                             *)
(*   - variant "v28"  : src/index.tsx          (STORAGE_KEY ..._v28_0)     *)
(*   - variant "v275" : src/unnamed/part_000   (STORAGE_KEY ..._v27_5)     *)
(*                                                                         *)
(* Strings are modelled as sequences of one-character strings, so that     *)
(* trim(), localeCompare() and the property order of Object.entries() are  *)
(* computed rather than assumed.                                           *)
(***************************************************************************)
EXTENDS Integers, Sequences, FiniteSets, TLC

(***************************************************************************)
(* Strings                                                                 *)
(***************************************************************************)

\* String.prototype.trim strips white space at both ends; " " and "\t" are
\* the white space characters of the model's alphabet.
IsSpace(c) == c \in {" ", "\t"}

RECURSIVE TrimStart(_)
TrimStart(s) ==
    IF s # <<>> /\ IsSpace(Head(s)) THEN TrimStart(Tail(s)) ELSE s

RECURSIVE TrimEnd(_)
TrimEnd(s) ==
    IF s # <<>> /\ IsSpace(s[Len(s)]) THEN TrimEnd(SubSeq(s, 1, Len(s) - 1)) ELSE s

\* Mutation: only the leading white space is stripped.
trim_StartOnly(s) == TrimStart(s)

trim(s) == TrimEnd(TrimStart(s))

\* Boolean(s) for a string: the empty string is falsy.
Truthy(s) == s # <<>>

Digits == {"0", "1", "2", "3", "4", "5", "6", "7", "8", "9"}

DigitVal(c) ==
    CASE c = "0" -> 0 [] c = "1" -> 1 [] c = "2" -> 2 [] c = "3" -> 3
      [] c = "4" -> 4 [] c = "5" -> 5 [] c = "6" -> 6 [] c = "7" -> 7
      [] c = "8" -> 8 [] c = "9" -> 9

RECURSIVE NumVal(_)
NumVal(s) == IF s = <<>> THEN 0 ELSE 10 * NumVal(SubSeq(s, 1, Len(s) - 1)) + DigitVal(s[Len(s)])

\* A property key is an "array index" (ECMAScript OrdinaryOwnPropertyKeys)
\* when it is the canonical decimal form of an integer below 2^32 - 1; every
\* digit string of the model has fewer than ten digits and is below it.
IsArrayIndex(s) ==
    /\ s # <<>>
    /\ Len(s) < 10
    /\ \A i \in 1..Len(s) : s[i] \in Digits
    /\ (Len(s) > 1 => s[1] # "0")

\* The property names every plain object literal {} inherits from
\* Object.prototype: counts[name] is truthy for them before any assignment.
ProtoKey == <<"_", "_", "p", "r", "o", "t", "o", "_", "_">>

ObjectPrototypeKeys ==
    { <<"c", "o", "n", "s", "t", "r", "u", "c", "t", "o", "r">>,
      <<"t", "o", "S", "t", "r", "i", "n", "g">>,
      <<"v", "a", "l", "u", "e", "O", "f">>,
      <<"t", "o", "L", "o", "c", "a", "l", "e", "S", "t", "r", "i", "n", "g">>,
      <<"h", "a", "s", "O", "w", "n", "P", "r", "o", "p", "e", "r", "t", "y">>,
      <<"i", "s", "P", "r", "o", "t", "o", "t", "y", "p", "e", "O", "f">>,
      <<"p", "r", "o", "p", "e", "r", "t", "y", "I", "s", "E", "n", "u", "m", "e", "r", "a", "b", "l", "e">>,
      ProtoKey }

(***************************************************************************)
(* persistentSectors (useMemo)                                             *)
(***************************************************************************)

\* Array.prototype.filter(Boolean) on an array of strings.
FilterBoolean(names) == SelectSeq(names, Truthy)

RECURSIVE Distinct(_)
\* A list without the later repetitions of its elements.
Distinct(names) ==
    IF names = <<>> THEN <<>>
    ELSE LET front == Distinct(SubSeq(names, 1, Len(names) - 1))
             last == names[Len(names)]
         IN  IF \E j \in 1..Len(front) : front[j] = last THEN front ELSE Append(front, last)

\* Mutation: a record's names are taken once each.
TrimmedNames_Once(names) ==
    Distinct(FilterBoolean([i \in 1..Len(names) |-> trim(names[i])]))

\* h.topSectors.map(s => s.name.trim()).filter(Boolean)
TrimmedNames(names) == FilterBoolean([i \in 1..Len(names) |-> trim(names[i])])

RECURSIVE FlatMap(_)
\* last5.flatMap(...): the per-record lists, concatenated in store order.
FlatMap(lists) ==
    IF lists = <<>> THEN <<>> ELSE TrimmedNames(Head(lists)) \o FlatMap(Tail(lists))

\* Mutation: the slice is forgotten.
Last5_All(hist) == hist

\* history.slice(0, 5)
SliceEnd == 5
Last5(hist) == SubSeq(hist, 1, IF Len(hist) < SliceEnd THEN Len(hist) ELSE SliceEnd)

\* The own properties of `counts`, in creation order.  An entry's value is a
\* number (num = TRUE, n) or, for a name inherited from Object.prototype, the
\* string that `inherited + 1` concatenates (num = FALSE).
OwnIndex(counts, name) ==
    IF \E i \in 1..Len(counts) : counts[i].name = name
    THEN CHOOSE i \in 1..Len(counts) : counts[i].name = name
    ELSE 0

\* counts[name] = (counts[name] || 0) + 1
CountOne(counts, name) ==
    LET i == OwnIndex(counts, name) IN
    IF i > 0
    THEN IF counts[i].num
         THEN [counts EXCEPT ![i].n = @ + 1]
         ELSE counts
    ELSE IF name = ProtoKey
         THEN counts
         ELSE IF name \in ObjectPrototypeKeys
              THEN Append(counts, [name |-> name, num |-> FALSE, n |-> 0])
              ELSE Append(counts, [name |-> name, num |-> TRUE, n |-> 1])

RECURSIVE CountAll(_, _)
\* allSectors.forEach(name => ...)
CountAll(counts, names) ==
    IF names = <<>> THEN counts ELSE CountAll(CountOne(counts, Head(names)), Tail(names))

RECURSIVE InsertByIndex(_, _)
\* Insert an array-index key into a list kept in ascending numeric order.
InsertByIndex(sorted, e) ==
    IF sorted = <<>> THEN <<e>>
    ELSE IF NumVal(e.name) < NumVal(Head(sorted).name)
         THEN <<e>> \o sorted
         ELSE <<Head(sorted)>> \o InsertByIndex(Tail(sorted), e)

RECURSIVE IndexKeysAscending(_)
IndexKeysAscending(es) ==
    IF es = <<>> THEN <<>>
    ELSE InsertByIndex(IndexKeysAscending(SubSeq(es, 1, Len(es) - 1)), es[Len(es)])

IsIndexEntry(e) == IsArrayIndex(e.name)
IsStringEntry(e) == ~IsArrayIndex(e.name)

\* Object.entries(counts): array-index keys in ascending numeric order, then
\* the other string keys in creation order.
ObjectEntries(counts) ==
    IndexKeysAscending(SelectSeq(counts, IsIndexEntry)) \o SelectSeq(counts, IsStringEntry)

\* .filter(([_, count]) => count >= 2): a non-numeric string compares false.
AtLeastTwo(e) == e.num /\ e.n >= 2

RECURSIVE InsertByCount(_, _)
\* Stable insertion for the comparator (a, b) => b[1] - a[1]: an entry goes
\* after every entry whose count is not smaller.
InsertByCount(sorted, e) ==
    IF sorted = <<>> THEN <<e>>
    ELSE IF Head(sorted).n - e.n < 0
         THEN <<e>> \o sorted
         ELSE <<Head(sorted)>> \o InsertByCount(Tail(sorted), e)

RECURSIVE SortByCountDesc(_)
\* Array.prototype.sort is stable (ES2019).
SortByCountDesc(es) ==
    IF es = <<>> THEN <<>>
    ELSE InsertByCount(SortByCountDesc(SubSeq(es, 1, Len(es) - 1)), es[Len(es)])

\* persistentSectors for the working record's sector names and the stored
\* records' sector names (store order): a sequence of <<name, count>>.
persistentSectors(currentNames, historyNames) ==
    LET last5 == Last5(historyNames)
        currentSectors == TrimmedNames(currentNames)
        historicalSectors == FlatMap(last5)
        allSectors == currentSectors \o historicalSectors
        counts == CountAll(<<>>, allSectors)
        kept == SortByCountDesc(SelectSeq(ObjectEntries(counts), AtLeastTwo))
    IN  [i \in 1..Len(kept) |-> <<kept[i].name, kept[i].n>>]

(***************************************************************************)
(* The application state (one App component)                               *)
(***************************************************************************)

VARIABLES
    variant,        \* "v28" (src/index.tsx) or "v275" (src/unnamed/part_000)
    review,         \* useState(INITIAL_REVIEW): the working record
    history,        \* useState([]): the store, a sequence of records
    heap,           \* the mutable leaf objects the records refer to, by address
    blob,           \* localStorage item under STORAGE_KEY
    isLoading,      \* useState(false)
    uploadedFiles,  \* useState([]): a sequence of files
    calls,          \* AI requests awaiting their response
    requests,       \* observer: the number of AI requests sent so far
    reads,          \* handleFileChange invocations awaiting their FileReader
    lastAlert,      \* the message of the last alert() shown, "none" before any
    lastOp,         \* observer: the kind of the last handler that ran
    psReview,       \* analyzer input: the working record's sector names
    psHistory,      \* analyzer input: the stored records' dates and names
    psOut,          \* analyzer output, once computed
    clsIn,          \* classifier input: the sentiment fields of a record
    clsOut          \* classifier output, once computed

vars == <<variant, review, history, heap, blob, isLoading, uploadedFiles,
          calls, requests, reads, lastAlert, lastOp, psReview, psHistory, psOut,
          clsIn, clsOut>>

appVars == <<variant, review, history, heap, blob, isLoading, uploadedFiles,
             calls, requests, reads, lastAlert, lastOp>>

psVars == <<psReview, psHistory, psOut>>

clsVars == <<clsIn, clsOut>>

Variants == {"v28", "v275"}

(***************************************************************************)
(* Dates: the value of <input type="date">, "YYYY-MM-DD"                   *)
(***************************************************************************)

DigitChar(n) ==
    CASE n = 0 -> "0" [] n = 1 -> "1" [] n = 2 -> "2" [] n = 3 -> "3"
      [] n = 4 -> "4" [] n = 5 -> "5" [] n = 6 -> "6" [] n = 7 -> "7"
      [] n = 8 -> "8" [] n = 9 -> "9"

\* The n-th day of January 2024 as the date input reports it.
DateString(n) ==
    <<"2", "0", "2", "4", "-", "0", "1", "-", DigitChar(n \div 10), DigitChar(n % 10)>>

\* The collation rank of a character of a date string: "-" before the digits.
CharRank(c) == IF c = "-" THEN 0 ELSE 1 + DigitVal(c)

RECURSIVE localeCompare(_, _)
\* a.localeCompare(b) on strings of digits and "-": negative, zero, positive.
localeCompare(a, b) ==
    IF a = <<>> /\ b = <<>> THEN 0
    ELSE IF a = <<>> THEN -1
    ELSE IF b = <<>> THEN 1
    ELSE IF CharRank(Head(a)) < CharRank(Head(b)) THEN -1
    ELSE IF CharRank(Head(a)) > CharRank(Head(b)) THEN 1
    ELSE localeCompare(Tail(a), Tail(b))

(***************************************************************************)
(* INITIAL_REVIEW                                                          *)
(***************************************************************************)

LadderLevels == <<"1", "2", "3", "4", "5">>

InitialSector == [name |-> <<>>, gain |-> 0, limitUps |-> 0, volume |-> 0]

InitialLadderEntry == [count |-> 0, stock |-> "", concept |-> "", promoRate |-> 0]

IndexNames28 == <<"shangzheng", "shencheng", "chuangye", "kechuang",
                  "hushen300", "zhongzheng1000", "zhongzheng2000", "weipangu">>

IndexNames275 == <<"hu", "shen", "chuang", "ke", "300", "1000", "2000", "weipan">>

InitialIndex28(i) == [name |-> IndexNames28[i], value |-> 0, change |-> 0, ma5Status |-> "above"]

InitialIndex275(i) == [name |-> IndexNames275[i], change |-> 0, ma5Status |-> "above"]

\* An object that no handler of a variant writes in place is kept in the
\* record by value: its identity cannot be observed.  The objects that some
\* handler writes in place (ladder entries and index rows in both variants,
\* sector objects in v275) are kept in `heap`, and the record holds their
\* addresses.  v28 writes three sector object literals; v275 writes
\* Array(3).fill({...}): one object, referenced three times.
InitialHeap(v) ==
    IF v = "v28"
    THEN [i \in 1..5 |-> InitialLadderEntry] \o [i \in 1..8 |-> InitialIndex28(i)]
    ELSE [i \in 1..5 |-> InitialLadderEntry] \o [i \in 1..8 |-> InitialIndex275(i)]
         \o <<InitialSector>>

Today == DateString(10)

INITIAL_REVIEW(v) ==
    [ date       |-> Today,
      indices    |-> [i \in 1..8 |-> 5 + i],
      totalVol   |-> 0,
      topSectors |-> IF v = "v28"
                     THEN <<InitialSector, InitialSector, InitialSector>>
                     ELSE <<14, 14, 14>>,
      ladder     |-> [k \in {"1", "2", "3", "4", "5"} |->
                        CHOOSE j \in 1..5 : LadderLevels[j] = k],
      dragon     |-> "",
      score      |-> 50,
      stage      |-> IF v = "v28" THEN "daiyanpan" ELSE "hundunqi",
      aiAnalysis |-> <<>> ]

(***************************************************************************)
(* Reading a record through the heap                                       *)
(***************************************************************************)

\* rec.topSectors[i], the object
Sector(v, rec, i, hp) == IF v = "v28" THEN rec.topSectors[i] ELSE hp[rec.topSectors[i]]

\* A record with its references replaced by the objects they point to: what
\* JSON.stringify writes, and what the user sees of a record.
Deep(v, rec, hp) ==
    [rec EXCEPT
        !.topSectors = [i \in 1..Len(rec.topSectors) |-> Sector(v, rec, i, hp)],
        !.ladder = [k \in DOMAIN rec.ladder |-> hp[rec.ladder[k]]],
        !.indices = [i \in 1..Len(rec.indices) |-> hp[rec.indices[i]]]]

\* JSON.stringify(newHistory)
Stringify(v, h, hp) == [i \in 1..Len(h) |-> Deep(v, h[i], hp)]

\* rec.topSectors.map(s => s.name)
SectorNames(v, rec, hp) == [i \in 1..Len(rec.topSectors) |-> Sector(v, rec, i, hp).name]

\* The value of the persistentSectors memo in the current state.
PersistentNow ==
    persistentSectors(SectorNames(variant, review, heap),
                      [k \in 1..Len(history) |-> SectorNames(variant, history[k], heap)])

(***************************************************************************)
(* Field edits (onChange handlers)                                         *)
(***************************************************************************)

ioVars == <<isLoading, uploadedFiles, calls, requests, reads>>

\* <input type="date"> onChange: setReview({...review, date: e.target.value})
EditDate(d) ==
    /\ review' = [review EXCEPT !.date = d]
    /\ lastOp' = "edit"
    /\ UNCHANGED <<variant, history, heap, blob, lastAlert, ioVars, psVars, clsVars>>

\* Scalar fields (totalVol, dragon, ...): setReview({...review, [f]: v})
EditScalar(f, v) ==
    /\ review' = [review EXCEPT ![f] = v]
    /\ lastOp' = "edit"
    /\ UNCHANGED <<variant, history, heap, blob, lastAlert, ioVars, psVars, clsVars>>

\* v28, <input type="range" min="0" max="100">: the browser keeps the value
\* of a range input within min..max; setReview({...review, score: +value})
SetScore(v) ==
    /\ variant = "v28"
    /\ v \in 0..100
    /\ review' = [review EXCEPT !.score = v]
    /\ lastOp' = "score"
    /\ UNCHANGED <<variant, history, heap, blob, lastAlert, ioVars, psVars, clsVars>>

Max(a, b) == IF a >= b THEN a ELSE b
Min(a, b) == IF a <= b THEN a ELSE b

\* v275, the -5 button: setReview({...review, score: Math.max(0, score - 5)})
ScoreDown ==
    /\ variant = "v275"
    /\ review' = [review EXCEPT !.score = Max(0, @ - 5)]
    /\ lastOp' = "score"
    /\ UNCHANGED <<variant, history, heap, blob, lastAlert, ioVars, psVars, clsVars>>

\* v275, the +5 button: setReview({...review, score: Math.min(100, score + 5)})
ScoreUp ==
    /\ variant = "v275"
    /\ review' = [review EXCEPT !.score = Min(100, @ + 5)]
    /\ lastOp' = "score"
    /\ UNCHANGED <<variant, history, heap, blob, lastAlert, ioVars, psVars, clsVars>>

\* topSectors[i].name / gain / limitUps / volume.
\*   v28 : ns = [...review.topSectors]; ns[i] = {...ns[i], [f]: v}
\*   v275: ns = [...review.topSectors]; ns[i][f] = v      (in place)
EditSector(i, f, v) ==
    /\ i \in 1..Len(review.topSectors)
    /\ IF variant = "v28"
       THEN /\ review' = [review EXCEPT !.topSectors[i][f] = v]
            /\ heap' = heap
       ELSE /\ review' = review
            /\ heap' = [heap EXCEPT ![review.topSectors[i]][f] = v]
    /\ lastOp' = "edit"
    /\ UNCHANGED <<variant, history, blob, lastAlert, ioVars, psVars, clsVars>>

\* Mutation: the edit persists the store, as an auto-save would.
EditLadder_AutoSave(lvl, f, v) ==
    /\ heap' = IF lvl \in DOMAIN review.ladder
               THEN [heap EXCEPT ![review.ladder[lvl]][f] = v]
               ELSE heap
    /\ blob' = [written |-> TRUE, value |-> Stringify(variant, history, heap')]
    /\ lastOp' = "edit"
    /\ UNCHANGED <<variant, review, history, lastAlert, ioVars, psVars, clsVars>>

\* ladder[lvl].stock / count / promoRate, both variants:
\*   nl = {...review.ladder}; nl[lvl][f] = v               (in place)
\* nl[lvl] is undefined for a missing level: the handler throws a TypeError
\* before setReview and nothing changes.
EditLadder(lvl, f, v) ==
    /\ heap' = IF lvl \in DOMAIN review.ladder
               THEN [heap EXCEPT ![review.ladder[lvl]][f] = v]
               ELSE heap
    /\ lastOp' = "edit"
    /\ UNCHANGED <<variant, review, history, blob, lastAlert, ioVars, psVars, clsVars>>

\* indices[i]: ni = [...review.indices]; ni[i].value = v (v28),
\* ni[i].change = v (v275)                                 (in place)
EditIndex(i, v) ==
    /\ i \in 1..Len(review.indices)
    /\ LET f == IF variant = "v28" THEN "value" ELSE "change" IN
       heap' = [heap EXCEPT ![review.indices[i]][f] = v]
    /\ lastOp' = "edit"
    /\ UNCHANGED <<variant, review, history, blob, lastAlert, ioVars, psVars, clsVars>>

\* The archive card onClick: setReview(h)
LoadArchive(k) ==
    /\ k \in 1..Len(history)
    /\ review' = history[k]
    /\ lastOp' = "load"
    /\ UNCHANGED <<variant, history, heap, blob, lastAlert, ioVars, psVars, clsVars>>

(***************************************************************************)
(* handleSave                                                              *)
(***************************************************************************)

RECURSIVE InsertByDate(_, _)
\* Stable insertion for the comparator (a, b) => b.date.localeCompare(a.date).
InsertByDate(sorted, e) ==
    IF sorted = <<>> THEN <<e>>
    ELSE IF localeCompare(e.date, Head(sorted).date) > 0
         THEN <<e>> \o sorted
         ELSE <<Head(sorted)>> \o InsertByDate(Tail(sorted), e)

RECURSIVE SortByDateDesc(_)
SortByDateDesc(recs) ==
    IF recs = <<>> THEN <<>>
    ELSE InsertByDate(SortByDateDesc(SubSeq(recs, 1, Len(recs) - 1)), recs[Len(recs)])

\* Mutation: the filter is forgotten.
OtherDates_KeepAll(h, d) == h

\* Mutation: the store is replaced by the working record alone.
OtherDates_None(h, d) == <<>>

\* history.filter(h => h.date !== review.date)
OtherDates(h, d) == LET keep(x) == x.date # d IN SelectSeq(h, keep)

\* Mutation: the working record is put in front of the whole store.
NewHistory_Prepend(r, h) == <<r>> \o h

\* Mutation: the sort is forgotten.
NewHistory_Unsorted(r, h) == <<r>> \o OtherDates(h, r.date)

\* [review, ...history.filter(...)].sort(...)
NewHistory(r, h) == SortByDateDesc(<<r>> \o OtherDates(h, r.date))

\* Mutation: the stale `history` of the closure is persisted.
handleSave_StaleBlob ==
    /\ history' = NewHistory(review, history)
    /\ blob' = [written |-> TRUE, value |-> Stringify(variant, history, heap)]
    /\ lastAlert' = "saved"
    /\ lastOp' = IF \E k \in 1..Len(history) : history[k].date = review.date
                 THEN "save_replace" ELSE "save_new"
    /\ UNCHANGED <<variant, review, heap, ioVars, psVars, clsVars>>

handleSave ==
    /\ LET newHistory == NewHistory(review, history) IN
       /\ history' = newHistory
       /\ blob' = [written |-> TRUE, value |-> Stringify(variant, newHistory, heap)]
    /\ lastAlert' = "saved"
    /\ lastOp' = IF \E k \in 1..Len(history) : history[k].date = review.date
                 THEN "save_replace" ELSE "save_new"
    /\ UNCHANGED <<variant, review, heap, ioVars, psVars, clsVars>>

(***************************************************************************)
(* Files: handleFileChange, removeFile                                     *)
(***************************************************************************)

KeptFiles == 10

\* [...prev, ...newFiles].slice(-10)
SliceLast(s) == IF Len(s) <= KeptFiles THEN s ELSE SubSeq(s, Len(s) - KeptFiles + 1, Len(s))

\* newFiles.push({name, mimeType, data, preview}): preview only for images.
UploadedFile(file) ==
    [name |-> file.name, mimeType |-> file.type, data |-> file.name,
     preview |-> file.type = "image/png"]

MaxReads == 2

\* handleFileChange(e) with e.target.files = files.  With no file the loop
\* body never awaits and the setter runs in the same task; otherwise the
\* invocation waits for its FileReaders.
handleFileChange(files) ==
    /\ IF files = <<>>
       THEN /\ uploadedFiles' = SliceLast(uploadedFiles)
            /\ reads' = reads
       ELSE /\ Len(reads) < MaxReads
            /\ reads' = Append(reads, files)
            /\ uploadedFiles' = uploadedFiles
    /\ lastOp' = "file"
    /\ UNCHANGED <<variant, review, history, heap, blob, isLoading, calls, requests, lastAlert,
                   psVars, clsVars>>

\* reads without its i-th element
Without(s, i) == SubSeq(s, 1, i - 1) \o SubSeq(s, i + 1, Len(s))

\* Every reader of the invocation has fired onload:
\* setUploadedFiles(prev => [...prev, ...newFiles].slice(-10))
FileReadDone(i) ==
    /\ i \in 1..Len(reads)
    /\ LET newFiles == [j \in 1..Len(reads[i]) |-> UploadedFile(reads[i][j])] IN
       uploadedFiles' = SliceLast(uploadedFiles \o newFiles)
    /\ reads' = Without(reads, i)
    /\ lastOp' = "file"
    /\ UNCHANGED <<variant, review, history, heap, blob, isLoading, calls, requests, lastAlert,
                   psVars, clsVars>>

\* A reader of the invocation fails.  v28 sets no onerror: the promise never
\* settles and the invocation never resumes.  v275 rejects, and the rejection
\* leaves handleFileChange before its setter.  Either way it sets nothing.
FileReadFail(i) ==
    /\ i \in 1..Len(reads)
    /\ reads' = Without(reads, i)
    /\ lastOp' = "file_fail"
    /\ UNCHANGED <<variant, review, history, heap, blob, isLoading, uploadedFiles, calls,
                   requests, lastAlert, psVars, clsVars>>

\* setUploadedFiles(prev => prev.filter((_, i) => i !== index)), 0-based
removeFile(index) ==
    /\ uploadedFiles' = IF index + 1 \in 1..Len(uploadedFiles)
                        THEN Without(uploadedFiles, index + 1)
                        ELSE uploadedFiles
    /\ lastOp' = "file"
    /\ UNCHANGED <<variant, review, history, heap, blob, isLoading, calls, requests, reads,
                   lastAlert, psVars, clsVars>>

(***************************************************************************)
(* AI requests: autoFillMarketData, analyzeSentimentCycle, callAI          *)
(***************************************************************************)

\* {...a, ...b}
Merge(a, b) ==
    [f \in DOMAIN a \cup DOMAIN b |-> IF f \in DOMAIN b THEN b[f] ELSE a[f]]

\* The addresses a v275 autofill may allocate: one per index row, sector and
\* ladder level.
MaxHeap == 46
AllocMost == 8 + 3 + 5

\* The AI requests of a behaviour.
MaxRequests == 2

\* Mutation: the isLoading guard is forgotten.
Dispatch_Unguarded(kind) ==
    /\ requests < MaxRequests
    /\ isLoading' = TRUE
    /\ calls' = Append(calls, [kind |-> kind, files |-> Len(uploadedFiles), date |-> review.date])
    /\ requests' = requests + 1
    /\ lastOp' = "ai_dispatch"
    /\ UNCHANGED <<variant, review, history, heap, blob, uploadedFiles, reads, lastAlert,
                   psVars, clsVars>>

\* The part of a handler before its await: the guard, setIsLoading(true), and
\* the request with what its closure holds of the render it was made in.
Dispatch(kind) ==
    /\ ~isLoading
    /\ requests < MaxRequests
    /\ isLoading' = TRUE
    /\ calls' = Append(calls, [kind |-> kind, files |-> Len(uploadedFiles), date |-> review.date])
    /\ requests' = requests + 1
    /\ lastOp' = "ai_dispatch"
    /\ UNCHANGED <<variant, review, history, heap, blob, uploadedFiles, reads, lastAlert,
                   psVars, clsVars>>

\* Mutation: the check of uploadedFiles.length is forgotten.
autoFillMarketData_NoFileCheck ==
    /\ Len(heap) + AllocMost <= MaxHeap
    /\ Dispatch("autofill")

autoFillMarketData ==
    IF ~isLoading /\ uploadedFiles = <<>>
    THEN /\ lastAlert' = IF variant = "v275" THEN "upload_first" ELSE lastAlert
         /\ lastOp' = "ai_refused"
         /\ UNCHANGED <<variant, review, history, heap, blob, isLoading, uploadedFiles,
                        calls, requests, reads, psVars, clsVars>>
    ELSE /\ Len(heap) + AllocMost <= MaxHeap
         /\ Dispatch("autofill")

analyzeSentimentCycle ==
    /\ variant = "v28"
    /\ Dispatch("analyze")

callAI == Dispatch("callAI")

\* Mutation: the finally block is forgotten.
AIFail_NoFinally(i) ==
    /\ i \in 1..Len(calls)
    /\ lastAlert' = calls[i].kind
    /\ calls' = Without(calls, i)
    /\ lastOp' = "ai_fail"
    /\ UNCHANGED <<variant, review, history, heap, blob, isLoading, uploadedFiles, requests,
                   reads, psVars, clsVars>>

\* catch + finally.  v28 alerts; v275 alerts for autofill and writes the
\* time-out text for callAI.
AIFail(i) ==
    /\ i \in 1..Len(calls)
    /\ LET c == calls[i] IN
       /\ review' = IF variant = "v275" /\ c.kind = "callAI"
                    THEN [review EXCEPT !.aiAnalysis = <<"zhihuiguan_chaoshi">>]
                    ELSE review
       /\ lastAlert' = IF variant = "v275" /\ c.kind = "callAI"
                       THEN lastAlert
                       ELSE c.kind
    /\ calls' = Without(calls, i)
    /\ isLoading' = FALSE
    /\ lastOp' = "ai_fail"
    /\ UNCHANGED <<variant, history, heap, blob, uploadedFiles, requests, reads, psVars, clsVars>>

\* Mutation: the result is merged into the record of the render the request
\* was made in, setReview({...review, aiAnalysis: ...}).
CallAIDone_StaleClosure(i, text) ==
    /\ i \in 1..Len(calls)
    /\ calls[i].kind = "callAI"
    /\ review' = [review EXCEPT !.aiAnalysis = text, !.date = calls[i].date]
    /\ calls' = Without(calls, i)
    /\ isLoading' = FALSE
    /\ lastOp' = "ai_done"
    /\ UNCHANGED <<variant, history, heap, blob, uploadedFiles, requests, reads, lastAlert,
                   psVars, clsVars>>

\* callAI: setReview(prev => ({...prev, aiAnalysis: response.text || ""}))
CallAIDone(i, text) ==
    /\ i \in 1..Len(calls)
    /\ calls[i].kind = "callAI"
    /\ review' = [review EXCEPT !.aiAnalysis = text]
    /\ calls' = Without(calls, i)
    /\ isLoading' = FALSE
    /\ lastOp' = "ai_done"
    /\ UNCHANGED <<variant, history, heap, blob, uploadedFiles, requests, reads, lastAlert,
                   psVars, clsVars>>

StageNames == {"hundunqi", "huoyueqi", "fenhuaqi", "tuichaoqi"}

\* res.match(/zhouqijielun:(hundunqi|huoyueqi|fenhuaqi|tuichaoqi)/)?.[1]
\*     || "hundunqi"
\* on a response given as tokens: the first place where the heading is
\* followed by a stage name.
MatchStage(res) ==
    LET hits == {j \in 1..(Len(res) - 1) :
                    res[j] = "zhouqijielun:" /\ res[j + 1] \in StageNames}
    IN  IF hits = {} THEN "hundunqi"
        ELSE res[(CHOOSE j \in hits : \A m \in hits : j <= m) + 1]

\* Mutation: the new text replaces the previous analysis.
AnalyzeDone_Overwrite(i, res) ==
    /\ i \in 1..Len(calls)
    /\ calls[i].kind = "analyze"
    /\ review' = [review EXCEPT
                     !.stage = MatchStage(res),
                     !.aiAnalysis = <<"zhouqiyanpanjielun:">> \o res \o <<"\n\n">>]
    /\ calls' = Without(calls, i)
    /\ isLoading' = FALSE
    /\ lastOp' = "ai_done"
    /\ UNCHANGED <<variant, history, heap, blob, uploadedFiles, requests, reads, lastAlert,
                   psVars, clsVars>>

\* analyzeSentimentCycle: setReview(prev => ({...prev, stage, aiAnalysis:
\*     `zhouqiyanpanjielun: ${res}\n\n${prev.aiAnalysis}`}))
AnalyzeDone(i, res) ==
    /\ i \in 1..Len(calls)
    /\ calls[i].kind = "analyze"
    /\ review' = [review EXCEPT
                     !.stage = MatchStage(res),
                     !.aiAnalysis = <<"zhouqiyanpanjielun:">> \o res \o <<"\n\n">> \o @]
    /\ calls' = Without(calls, i)
    /\ isLoading' = FALSE
    /\ lastOp' = "ai_done"
    /\ UNCHANGED <<variant, history, heap, blob, uploadedFiles, requests, reads, lastAlert,
                   psVars, clsVars>>

\* `${n}` for a file count
Decimal(n) ==
    IF n < 10 THEN <<DigitChar(n)>> ELSE <<DigitChar(n \div 10), DigitChar(n % 10)>>

\* data.indices?.[name] is neither null nor undefined
HasIndex(data, name) == "indices" \in DOMAIN data /\ name \in DOMAIN data.indices

\* v275, prev.indices.map(idx => ({...idx, change: ..., ma5Status: ...}))
FilledIndex(idx, data) ==
    LET given == HasIndex(data, idx.name)
        change == IF given THEN data.indices[idx.name] ELSE idx.change
        sign == IF given THEN data.indices[idx.name] ELSE 0
    IN  [idx EXCEPT !.change = change,
                    !.ma5Status = IF sign >= 0 THEN "above" ELSE "below"]

\* v275: the sectors of data that replace a sector of prev, copied.
FilledSectors(prev, data) ==
    IF "sectors" \in DOMAIN data
    THEN SubSeq(data.sectors, 1,
                IF Len(data.sectors) < Len(prev.topSectors)
                THEN Len(data.sectors) ELSE Len(prev.topSectors))
    ELSE <<>>

\* v275: the levels of data.ladder that prev.ladder has, in LadderLevels order.
IsFilledLevel(prev, data, lvl) ==
    "ladder" \in DOMAIN data /\ lvl \in DOMAIN data.ladder /\ lvl \in DOMAIN prev.ladder

FilledLevels(prev, data) ==
    LET filled(lvl) == IsFilledLevel(prev, data, lvl) IN SelectSeq(LadderLevels, filled)

\* The position of x in a sequence without repetitions that holds it.
IndexOf(s, x) == CHOOSE j \in 1..Len(s) : s[j] = x

\* v275, setReview((prev) => {...}): the filled record and the heap with
\* the objects the updater creates.
Filled275(prev, data, hp, files) ==
    LET base == Len(hp)
        rows == [j \in 1..Len(prev.indices) |-> FilledIndex(hp[prev.indices[j]], data)]
        sectors == FilledSectors(prev, data)
        levels == FilledLevels(prev, data)
        entries == [j \in 1..Len(levels) |->
                       Merge(hp[prev.ladder[levels[j]]], data.ladder[levels[j]])]
        field(f, old) == IF f \in DOMAIN data THEN data[f] ELSE old
    IN  [ review |->
            [prev EXCEPT
                !.indices = [j \in 1..Len(prev.indices) |-> base + j],
                !.totalVol = field("totalVol", @),
                !.topSectors = [j \in 1..Len(prev.topSectors) |->
                                   IF j <= Len(sectors)
                                   THEN base + Len(rows) + j
                                   ELSE prev.topSectors[j]],
                !.ladder = [lvl \in DOMAIN prev.ladder |->
                               IF IsFilledLevel(prev, data, lvl)
                               THEN base + Len(rows) + Len(sectors) + IndexOf(levels, lvl)
                               ELSE prev.ladder[lvl]],
                !.dragon = field("dragon", @),
                !.aiAnalysis = <<"jiexichenggong">> \o Decimal(files)],
          heap |-> hp \o rows \o sectors \o entries ]

RECURSIVE SeqOf(_)
\* The elements of a finite set, in some order.
SeqOf(S) ==
    IF S = {} THEN <<>>
    ELSE LET x == CHOOSE y \in S : TRUE IN <<x>> \o SeqOf(S \ {x})

\* v28, setReview(prev => ({...prev, ...data, aiAnalysis: "..."})): the
\* merged record, and the heap with the ladder entries and index rows that
\* JSON.parse created for data.ladder and data.indices.
Filled28(prev, data, hp) ==
    LET base == Len(hp)
        levels == IF "ladder" \in DOMAIN data THEN SeqOf(DOMAIN data.ladder) ELSE <<>>
        entries == [j \in 1..Len(levels) |-> data.ladder[levels[j]]]
        rows == IF "indices" \in DOMAIN data THEN data.indices ELSE <<>>
        merged == Merge(Merge(prev, data), [aiAnalysis |-> <<"xinyuantongbuwancheng">>])
    IN  [ review |->
            [merged EXCEPT
                !.ladder = IF "ladder" \in DOMAIN data
                           THEN [lvl \in DOMAIN data.ladder |-> base + IndexOf(levels, lvl)]
                           ELSE @,
                !.indices = IF "indices" \in DOMAIN data
                            THEN [j \in 1..Len(rows) |-> base + Len(levels) + j]
                            ELSE @],
          heap |-> hp \o entries \o rows ]

\* autoFillMarketData after its await, with data = JSON.parse(response.text
\* || "{}").  A text that does not parse is an AIFail.
AutoFillDone(i, data) ==
    /\ i \in 1..Len(calls)
    /\ calls[i].kind = "autofill"
    /\ LET filled == IF variant = "v28"
                     THEN Filled28(review, data, heap)
                     ELSE Filled275(review, data, heap, calls[i].files)
       IN  /\ review' = filled.review
           /\ heap' = filled.heap
    /\ calls' = Without(calls, i)
    /\ isLoading' = FALSE
    /\ lastOp' = "ai_done"
    /\ UNCHANGED <<variant, history, blob, uploadedFiles, requests, reads, lastAlert, psVars, clsVars>>

(***************************************************************************)
(* The store specification: edits, date changes, archive loads, saves      *)
(***************************************************************************)

NumDates == 1

\* The dates the date input is set to: days before and after Today.
DateInputs == {DateString(7 + 2 * i) : i \in 1..NumDates}

SectorNameInputs == {<<"A">>}

EditedSlots == {1}

\* The component after mount, with nothing under STORAGE_KEY.
InitApp ==
    /\ review = INITIAL_REVIEW(variant)
    /\ history = <<>>
    /\ heap = InitialHeap(variant)
    /\ blob = [written |-> FALSE, value |-> <<>>]
    /\ isLoading = FALSE
    /\ uploadedFiles = <<>>
    /\ calls = <<>>
    /\ requests = 0
    /\ reads = <<>>
    /\ lastAlert = "none"
    /\ lastOp = "init"

PsIdle ==
    /\ psReview = <<>>
    /\ psHistory = <<>>
    /\ psOut = [done |-> FALSE, value |-> <<>>, runs |-> 0]

\* The classifier has not run.
ClsIdle ==
    /\ clsIn = [trend |-> "flat", yesterdayGain |-> 0, nuclearCount |-> 0,
                limitUpCount |-> 0, limitDownCount |-> 0, promotionRate |-> 0]
    /\ clsOut = [done |-> FALSE, sum |-> 0, score |-> 0, stage |-> ""]

Init ==
    /\ variant \in Variants
    /\ InitApp
    /\ PsIdle
    /\ ClsIdle

\* The field edits of the store specification.
FieldEdit ==
    \/ \E i \in EditedSlots, n \in SectorNameInputs : EditSector(i, "name", n)
    \/ EditLadder("5", "stock", "S")
    \/ EditIndex(1, 1)
    \/ EditScalar("dragon", "D")

Next ==
    \/ \E d \in DateInputs : EditDate(d)
    \/ FieldEdit
    \/ \E k \in 1..(NumDates + 1) : LoadArchive(k)
    \/ handleSave

Spec == Init /\ [][Next]_vars

(***************************************************************************)
(* Properties of the store                                                 *)
(***************************************************************************)

\* The calendar position of a "YYYY-MM-DD" string, read field by field.
DateOrdinal(d) ==
    (NumVal(SubSeq(d, 1, 4)) * 12 + NumVal(SubSeq(d, 6, 7))) * 31 + NumVal(SubSeq(d, 9, 10))

\* The positions of the store that hold a record dated d.
Dated(h, d) == {k \in 1..Len(h) : h[k].date = d}

\* C1: in every state reachable from the empty store by edits, date changes,
\* archive loads and saves, no two stored records have the same date.
C1_UniqueDates ==
    \A i, j \in 1..Len(history) : i # j => history[i].date # history[j].date

\* A save has just replaced the record of a date in a store of several dates.
C1_Witness == lastOp = "save_replace" /\ Len(history) >= 2

\* C2: in every such state the store is ordered by calendar date, latest
\* first.
C2_SortedDescending ==
    \A i \in 1..(Len(history) - 1) :
        DateOrdinal(history[i].date) >= DateOrdinal(history[i + 1].date)

\* A save has just put a new record behind a later one.
C2_Witness ==
    /\ lastOp = "save_new"
    /\ \E k \in 2..Len(history) : history[k].date = review.date

\* C3: a handleSave whose working record's date is already in the store keeps
\* the number of stored records, leaves exactly one record for that date, and
\* that record (in the store and in the persisted blob) has the working
\* record's values.
C3_SaveReplaces ==
    [][ (handleSave /\ Dated(history, review.date) # {}) =>
          /\ Len(history') = Len(history)
          /\ Cardinality(Dated(history', review.date)) = 1
          /\ \A k \in Dated(history', review.date) :
                /\ Deep(variant, history'[k], heap') = Deep(variant, review, heap)
                /\ blob'.value[k] = Deep(variant, review, heap)
          /\ Len(blob'.value) = Len(history) ]_vars

\* A save has just replaced a stored record by the edited working record.
C3_Witness ==
    /\ lastOp = "save_replace"
    /\ \E k \in Dated(history, review.date) :
          /\ Deep(variant, history[k], heap) = Deep(variant, review, heap)
          /\ review.dragon = "D"

\* C4 (as claimed): right after a load from the archive or a save, a field
\* edit of the working record leaves the stored record of that date as it
\* was.
C4_EditLeavesStoredRecord ==
    [][ (FieldEdit /\ lastOp \in {"load", "save_new", "save_replace"}) =>
          \A k \in Dated(history, review.date) :
              Deep(variant, history'[k], heap') = Deep(variant, history[k], heap) ]_vars

\* C10 (as claimed): while the store is empty the persistentSectors memo is
\* the empty sequence, whatever the working record's sector names are.
C10_EmptyStoreEmptyOutput == history = <<>> => PersistentNow = <<>>

(***************************************************************************)
(* The analyzer specification: persistentSectors on drawn inputs           *)
(***************************************************************************)

PsMaxStore == 6

\* The topSectors name lists the inputs are drawn from.
PsLists ==
    { << <<"A">>, <<"3", "0", "0">>, <<" ">> >>,
      << <<" ", "A", "\t">>, <<"B">>, <<"7">> >>,
      << <<"B">>, <<"B">>, <<"c", "o", "n", "s", "t", "r", "u", "c", "t", "o", "r">> >> }

\* A store as saves leave it: one record per date, latest first.
PsStore(lists) ==
    [k \in 1..Len(lists) |-> [date |-> DateString(Len(lists) - k + 1), names |-> lists[k]]]

PsNames(hist) == [k \in 1..Len(hist) |-> hist[k].names]

InitPS ==
    /\ variant = "v28"
    /\ InitApp
    /\ psReview \in PsLists
    /\ \E n \in 0..PsMaxStore : \E lists \in [1..n -> PsLists] : psHistory = PsStore(lists)
    /\ psOut = [done |-> FALSE, value |-> <<>>, runs |-> 0]
    /\ ClsIdle

\* The evaluations of the memo in a behaviour.
PsRuns == 2

\* What history.splice(0, 5) would leave of the store.
SpliceRest(hist) == SubSeq(hist, SliceEnd + 1, Len(hist))

\* Mutation: splice instead of slice, which takes the records out of the
\* store it reads.
PsCompute_Splice ==
    /\ psOut.runs < PsRuns
    /\ psOut' = [done |-> TRUE,
                 value |-> persistentSectors(psReview, PsNames(psHistory)),
                 runs |-> psOut.runs + 1]
    /\ psHistory' = SpliceRest(psHistory)
    /\ UNCHANGED <<appVars, clsVars, psReview>>

\* The memo is evaluated for the drawn inputs (and again on a later render):
\* slice, map, filter, flatMap and the spread build new arrays, and sort
\* works on the array that filter returned.
PsCompute ==
    /\ psOut.runs < PsRuns
    /\ psOut' = [done |-> TRUE,
                 value |-> persistentSectors(psReview, PsNames(psHistory)),
                 runs |-> psOut.runs + 1]
    /\ UNCHANGED <<appVars, clsVars, psReview, psHistory>>

NextPS == PsCompute

SpecPS == InitPS /\ [][NextPS]_vars

(***************************************************************************)
(* Properties of the analyzer                                              *)
(***************************************************************************)

Blank == {" ", "\t"}

Least(S) == CHOOSE x \in S : \A y \in S : x <= y
Greatest(S) == CHOOSE x \in S : \A y \in S : x >= y

\* A name without its surrounding blanks.
Core(s) ==
    LET solid == {j \in 1..Len(s) : s[j] \notin Blank} IN
    IF solid = {} THEN <<>> ELSE SubSeq(s, Least(solid), Greatest(solid))

\* The stored records that are among the five of greatest date.
Recent5(hist) ==
    {k \in 1..Len(hist) :
        Cardinality({j \in 1..Len(hist) :
                        DateOrdinal(hist[j].date) > DateOrdinal(hist[k].date)}) < 5}

\* How often a name occurs among the working record's names and the names
\* of the five most recent stored records.
Occurrences(name, cur, hist) ==
    LET places == UNION {{<<k, j>> : j \in 1..Len(hist[k].names)} : k \in Recent5(hist)} IN
    Cardinality({j \in 1..Len(cur) : Core(cur[j]) = name})
      + Cardinality({pl \in places : Core(hist[pl[1]].names[pl[2]]) = name})

\* The names the inputs hold.
InputNames(cur, hist) ==
    ({Core(cur[j]) : j \in 1..Len(cur)}
       \cup UNION {{Core(hist[k].names[j]) : j \in 1..Len(hist[k].names)} :
                     k \in 1..Len(hist)})
    \ {<<>>}

Reported(out, name) == \E i \in 1..Len(out) : out[i][1] = name

\* C6 (as claimed): a name is in the output iff it occurs at least twice among
\* the working record's names and those of the five most recent stored
\* records, and the count reported with it is that number of occurrences.
C6_ReportedIffTwoOccurrences ==
    psOut.done =>
        /\ \A name \in InputNames(psReview, psHistory) :
              Reported(psOut.value, name) <=> Occurrences(name, psReview, psHistory) >= 2
        /\ \A i \in 1..Len(psOut.value) :
              psOut.value[i][2] = Occurrences(psOut.value[i][1], psReview, psHistory)

Multiplicity(names, name) == Cardinality({j \in 1..Len(names) : Core(names[j]) = name})

RECURSIVE SumOverRecent(_, _, _, _)
\* The multiplicities of a name in the considered stored records (those at
\* the places `recent`) from place k on, added up record by record.
SumOverRecent(hist, recent, name, k) ==
    IF k > Len(hist) THEN 0
    ELSE (IF k \in recent THEN Multiplicity(hist[k].names, name) ELSE 0)
           + SumOverRecent(hist, recent, name, k + 1)

\* C11: the count reported for a name is the sum, over the working record and
\* each considered stored record, of how often that record's own list holds
\* the name: a record that holds it twice contributes 2.
C11_RepeatsWithinRecordCount ==
    psOut.done =>
        LET recent == Recent5(psHistory) IN
        \A i \in 1..Len(psOut.value) :
            psOut.value[i][2] =
                Multiplicity(psReview, psOut.value[i][1])
                  + SumOverRecent(psHistory, recent, psOut.value[i][1], 1)

\* B is reported with a count above the number of records that hold it: the
\* working record and a considered stored record both hold it twice.
C11_Witness ==
    /\ psOut.done
    /\ Multiplicity(psReview, <<"B">>) = 2
    /\ \E k \in Recent5(psHistory) : Multiplicity(psHistory[k].names, <<"B">>) = 2
    /\ \E i \in 1..Len(psOut.value) :
          /\ psOut.value[i][1] = <<"B">>
          /\ psOut.value[i][2] >
                Cardinality({k \in Recent5(psHistory) :
                                Multiplicity(psHistory[k].names, <<"B">>) > 0}) + 1

RECURSIVE Concatenation(_)
\* The stored names, most recent record first.
Concatenation(hist) ==
    IF hist = <<>> THEN <<>> ELSE Head(hist).names \o Concatenation(Tail(hist))

\* The place where a name first occurs in the concatenation.
FirstSeen(name, cur, hist) ==
    LET all == cur \o Concatenation(hist) IN
    Least({j \in 1..Len(all) : Core(all[j]) = name})

\* C7 (as claimed): the output is ordered by count, greatest first, and names
\* of equal count are in the order of their first occurrence in the
\* concatenation, digit strings included.
C7_ByCountThenFirstSeen ==
    psOut.done =>
        \A i \in 1..(Len(psOut.value) - 1) :
            LET a == psOut.value[i]
                b == psOut.value[i + 1]
            IN  \/ a[2] > b[2]
                \/ /\ a[2] = b[2]
                   /\ FirstSeen(a[1], psReview, psHistory) < FirstSeen(b[1], psReview, psHistory)

\* C8: every reported name is non-empty and has no surrounding blanks, and
\* its count is the number of input names, among the working record and the
\* five most recent stored records, that equal it once their surrounding
\* blanks are removed; blank names are counted nowhere.
C8_TrimmedBeforeCounting ==
    psOut.done =>
        \A i \in 1..Len(psOut.value) :
            LET name == psOut.value[i][1] IN
            /\ name # <<>>
            /\ Core(name) = name
            /\ psOut.value[i][2] = Occurrences(name, psReview, psHistory)

\* A name typed with surrounding blanks is reported under its bare form, with
\* a blank name among the inputs.
C8_Witness ==
    /\ psOut.done
    /\ \E j \in 1..Len(psReview) :
          /\ Core(psReview[j]) # psReview[j]
          /\ Reported(psOut.value, Core(psReview[j]))
    /\ \E k \in 1..Len(psHistory) : \E j \in 1..Len(psHistory[k].names) :
          /\ psHistory[k].names[j] # <<>>
          /\ Core(psHistory[k].names[j]) = <<>>

\* The store with the names of its k-th record replaced.
WithNames(hist, k, names) == [hist EXCEPT ![k].names = names]

\* The store without its k-th record.
WithoutRecord(hist, k) == SubSeq(hist, 1, k - 1) \o SubSeq(hist, k + 1, Len(hist))

\* C9: replacing the names of a stored record that is not among the five of
\* greatest date, or removing that record, leaves the output as it is.
C9_OnlyFiveMostRecent ==
    psOut.done =>
        \A k \in (1..Len(psHistory)) \ Recent5(psHistory) :
            /\ \A names \in PsLists :
                  persistentSectors(psReview, PsNames(WithNames(psHistory, k, names)))
                      = psOut.value
            /\ persistentSectors(psReview, PsNames(WithoutRecord(psHistory, k)))
                  = psOut.value

\* A sixth stored record names B twice, B is nowhere else, and B is not
\* reported.
C9_Witness ==
    /\ psOut.done
    /\ Len(psHistory) > 5
    /\ \E k \in (1..Len(psHistory)) \ Recent5(psHistory) :
          Cardinality({j \in 1..Len(psHistory[k].names) :
                          psHistory[k].names[j] = <<"B">>}) >= 2
    /\ Occurrences(<<"B">>, psReview, psHistory) = 0
    /\ ~Reported(psOut.value, <<"B">>)

(***************************************************************************)
(* The client specification: the store operations with files and AI calls  *)
(***************************************************************************)

NumDatesIO == 1

DateInputsIO == {DateString(7 + 2 * i) : i \in 1..NumDatesIO}

ImageFile == [name |-> "k.png", type |-> "image/png"]
TextFile == [name |-> "n.txt", type |-> "text/plain"]

\* The FileLists of the file input: none, or an image and nine text files.
FileBatches == {<<>>, <<ImageFile>> \o [j \in 1..9 |-> TextFile]}

\* The remove button of the tenth file.
RemoveIndexes == {9}

\* response.text of callAI
AITexts == {<<>>, <<"T">>}

\* response.text of analyzeSentimentCycle
AnalyzeTexts == {<<"zhouqijielun:", "tuichaoqi">>}

EmptyObject == [f \in {} |-> f]

\* The parsed responses of autoFillMarketData: {} and a filled one.
AutoFillData(v) ==
    IF v = "v28"
    THEN << EmptyObject,
            [dragon |-> "L", score |-> 80],
            [ladder |-> ("5" :> [stock |-> "S", count |-> 1, promoRate |-> 50])
                        @@ ("6" :> [stock |-> "X", count |-> 1, promoRate |-> 0])] >>
    ELSE << EmptyObject,
            [ indices |-> [hu |-> -1],
              sectors |-> << [name |-> <<"A">>, gain |-> 1, limitUps |-> 2, volume |-> 3],
                             [name |-> <<"B">>] >>,
              dragon  |-> "L",
              ladder  |-> ("5" :> [stock |-> "S", count |-> 1, promoRate |-> 50])
                          @@ ("6" :> [stock |-> "X", count |-> 1, promoRate |-> 0]) ] >>

\* The invocations of handleFileChange that read files at one time in the
\* client and score specifications.
MaxReadsIO == 1

FileOp ==
    \/ \E files \in FileBatches :
          (files = <<>> \/ Len(reads) < MaxReadsIO) /\ handleFileChange(files)
    \/ \E i \in 1..MaxReads : FileReadDone(i)
    \/ \E i \in 1..MaxReads : FileReadFail(i)
    \/ \E index \in RemoveIndexes : removeFile(index)

AIDispatch ==
    \/ autoFillMarketData
    \/ analyzeSentimentCycle
    \/ callAI

AISuccess ==
    \/ \E n \in 1..Len(AutoFillData(variant)) : AutoFillDone(1, AutoFillData(variant)[n])
    \/ \E res \in AnalyzeTexts : AnalyzeDone(1, res)
    \/ \E text \in AITexts : CallAIDone(1, text)

AIFailure == AIFail(1)

\* The field edit of the client specification: an in-place one.
FieldEditIO == EditLadder("5", "stock", "S")

NextIO ==
    \/ \E d \in DateInputsIO : EditDate(d)
    \/ FieldEditIO
    \/ \E k \in 1..(NumDatesIO + 1) : LoadArchive(k)
    \/ handleSave
    \/ FileOp
    \/ AIDispatch
    \/ AISuccess
    \/ AIFailure

SpecIO == Init /\ [][NextIO]_vars

\* C5: a step that changes the persisted blob is a handleSave step (no field
\* edit, archive load, file upload or removal, AI dispatch, success or failure
\* changes it), and no step makes the store or the blob hold fewer records.
C5_BlobWrittenOnlyBySave ==
    [][ /\ (blob' # blob => handleSave)
        /\ Len(history') >= Len(history)
        /\ Len(blob'.value) >= Len(blob.value) ]_vars

\* C15: no step leaves more than one AI request awaiting its response, and no
\* step taken while the loading flag is set is a dispatch: a trigger then
\* returns at its guard, sends nothing and changes nothing.
C15_OneCallInFlight ==
    [][ /\ Len(calls') <= 1
        /\ (isLoading => ~AIDispatch) ]_vars

\* The user went on editing while the second request of the session was in
\* flight, with files uploaded.
C15_Witness ==
    /\ isLoading
    /\ Len(calls) = 1
    /\ requests = 2
    /\ uploadedFiles # <<>>
    /\ lastOp = "edit"

\* C16: the loading flag is set exactly while a request awaits its response,
\* and every step in which a request returns, with a response or with a
\* failure, leaves the flag cleared, which is the guard of the next dispatch.
C16_FlagWhileInFlight ==
    /\ (isLoading <=> calls # <<>>)
    /\ [][ /\ (isLoading' <=> calls' # <<>>)
           /\ ((AISuccess \/ AIFailure) => ~isLoading') ]_vars

\* After a failed request the user has started a further one.
C16_Witness ==
    /\ lastOp = "ai_dispatch"
    /\ isLoading
    /\ requests = 2
    /\ lastAlert \in {"autofill", "analyze", "callAI"}

\* C17 (as claimed): every step in which the AI request, the parsing of its
\* response or the reading of an uploaded file fails ends with a failure
\* alert shown or the fallback text in aiAnalysis, and leaves the rest of the
\* working record, the store and the uploaded-file list as they were.
C17_FailuresAreReported ==
    [][ (AIFailure \/ \E i \in 1..MaxReads : FileReadFail(i)) =>
          /\ \/ lastAlert' \in {"autofill", "analyze", "callAI"}
             \/ review'.aiAnalysis = <<"zhihuiguan_chaoshi">>
          /\ [review' EXCEPT !.aiAnalysis = review.aiAnalysis] = review
          /\ heap' = heap
          /\ history' = history
          /\ uploadedFiles' = uploadedFiles ]_vars

\* The index row, sector or ladder level of a record is supplied by data.
SuppliedIndex(v, data, row, j) ==
    IF v = "v28"
    THEN "indices" \in DOMAIN data /\ j <= Len(data.indices)
    ELSE HasIndex(data, row.name)

SuppliedSector(v, data, j) ==
    IF v = "v28"
    THEN "topSectors" \in DOMAIN data /\ j <= Len(data.topSectors)
    ELSE "sectors" \in DOMAIN data /\ j <= Len(data.sectors)

SuppliedLevel(data, lvl) == "ladder" \in DOMAIN data /\ lvl \in DOMAIN data.ladder

\* Every field of `old` that `given` does not have is in `new` with its value.
KeepsOthers(old, new, given) ==
    \A f \in DOMAIN old \ DOMAIN given : f \in DOMAIN new /\ new[f] = old[f]

\* The record after an autofill keeps what data does not supply.
KeepsUnsupplied(v, prev, hp, next, hq, data) ==
    /\ \A f \in {"date", "totalVol", "dragon", "score", "stage"} \ DOMAIN data :
           next[f] = prev[f]
    /\ \A j \in 1..Len(prev.indices) :
           ~SuppliedIndex(v, data, hp[prev.indices[j]], j) =>
               j <= Len(next.indices) /\ hq[next.indices[j]] = hp[prev.indices[j]]
    /\ \A j \in 1..Len(prev.topSectors) :
           /\ j <= Len(next.topSectors)
           /\ IF SuppliedSector(v, data, j)
              THEN KeepsOthers(Sector(v, prev, j, hp), Sector(v, next, j, hq),
                               IF v = "v28" THEN data.topSectors[j] ELSE data.sectors[j])
              ELSE Sector(v, next, j, hq) = Sector(v, prev, j, hp)
    /\ \A lvl \in DOMAIN prev.ladder :
           /\ lvl \in DOMAIN next.ladder
           /\ IF SuppliedLevel(data, lvl)
              THEN KeepsOthers(hp[prev.ladder[lvl]], hq[next.ladder[lvl]], data.ladder[lvl])
              ELSE hq[next.ladder[lvl]] = hp[prev.ladder[lvl]]

\* C18 (as claimed): when an autofill completes, every field of the working
\* record that the parsed response does not supply keeps its previous value:
\* the scalars, each index row's change and ma5Status, each top sector's
\* name, gain, limitUps and volume, and each ladder level's fields.
C18_UnsuppliedFieldsKept ==
    [][ \A n \in 1..Len(AutoFillData(variant)) :
            AutoFillDone(1, AutoFillData(variant)[n]) =>
                KeepsUnsupplied(variant, review, heap, review', heap',
                                AutoFillData(variant)[n]) ]_vars

\* C14 (as claimed): the working record's ladder has exactly the five keys
\* "1" .. "5".
C14_LadderHasFiveKeys == DOMAIN review.ladder = {"1", "2", "3", "4", "5"}

\* An AI response has changed the working record of a stored date after two
\* dates were saved, and ten files are uploaded: the blob still holds what
\* the saves wrote.
C5_Witness ==
    /\ lastOp = "ai_done"
    /\ Len(blob.value) = 2
    /\ Len(uploadedFiles) = KeptFiles
    /\ \E k \in Dated(history, review.date) :
          blob.value[k] # Deep(variant, review, heap)

(***************************************************************************)
(* The score specification: the score controls with loads, saves, edits,   *)
(* uploads and AI calls                                                    *)
(***************************************************************************)

\* The positions the v28 slider is dragged to.
ScoreInputs == {0, 100}

\* The parsed responses of autoFillMarketData: {} and one that carries a
\* score.
ScoreFillData == << EmptyObject, [score |-> 150] >>

ScoreControl ==
    \/ \E v \in ScoreInputs : SetScore(v)
    \/ ScoreDown
    \/ ScoreUp

UploadBatch ==
    \/ \E files \in FileBatches :
          (files = <<>> \/ Len(reads) < MaxReadsIO) /\ handleFileChange(files)
    \/ FileReadDone(1)

AISuccessScore ==
    \/ \E n \in 1..Len(ScoreFillData) : AutoFillDone(1, ScoreFillData[n])
    \/ \E res \in AnalyzeTexts : AnalyzeDone(1, res)
    \/ \E text \in AITexts : CallAIDone(1, text)

\* The AI requests of a behaviour of the score specification.
MaxScoreRequests == 1

AIDispatchScore == requests < MaxScoreRequests /\ AIDispatch

NextScore ==
    \/ ScoreControl
    \/ FieldEditIO
    \/ LoadArchive(1)
    \/ handleSave
    \/ UploadBatch
    \/ AIDispatchScore
    \/ AISuccessScore
    \/ AIFailure

SpecScore == Init /\ [][NextScore]_vars

\* C13 (as claimed): the score of the working record and of every stored
\* record lies in 0..100.
C13_ScoreInRange ==
    /\ review.score \in 0..100
    /\ \A k \in 1..Len(history) : history[k].score \in 0..100

\* C23 (as claimed): a successful AI call writes its result into the record
\* whose fields built the prompt: when the working record has another date
\* than the one the request was made with, the completion leaves the working
\* record as it is.
C23_ResultGoesToPromptRecord ==
    [][ (AISuccess /\ calls[1].date # review.date) => review' = review ]_vars

\* C24 (as claimed): an edit of top sector i leaves the other entries of the
\* working record's topSectors with the values they had.
C24_SectorEditIsLocal ==
    [][ \A i \in EditedSlots, n \in SectorNameInputs :
            EditSector(i, "name", n) =>
                \A j \in 1..Len(review.topSectors) \ {i} :
                    Sector(variant, review', j, heap') = Sector(variant, review, j, heap) ]_vars

\* C30: an autoFillMarketData with no uploaded file sends no request, leaves
\* the loading flag as it is, and leaves the working record, the store and
\* the persisted blob unchanged.
C30_AutoFillNeedsFiles ==
    [][ (autoFillMarketData /\ uploadedFiles = <<>>) =>
          /\ calls' = calls
          /\ requests' = requests
          /\ isLoading' = isLoading
          /\ ~isLoading'
          /\ review' = review
          /\ heap' = heap
          /\ history' = history
          /\ blob' = blob ]_vars

\* Auto-fill has been refused for lack of files.
C30_Witness == lastOp = "ai_refused" /\ uploadedFiles = <<>> /\ calls = <<>>

\* C20 (as claimed): the score of the working record changes only in a step
\* of the score control or in the load of an archived record; no completion
\* of an AI call, no save and no other edit changes it.
C20_ScoreSetOnlyByUser ==
    [][ review'.score # review.score =>
          (ScoreControl \/ \E k \in 1..Len(history) : LoadArchive(k)) ]_vars

-----------------------------------------------------------------------------
\* The analysis specification: the two AI calls that need no file, with
\* edits, saves and archive loads before, between and during them.

\* response.text of analyzeSentimentCycle: empty, without the heading, the
\* heading followed by something else, by a stage name, and twice.
AnalyzeResponses ==
    { <<>>,
      <<"x">>,
      <<"zhouqijielun:", "x">>,
      <<"zhouqijielun:", "tuichaoqi">>,
      <<"x", "zhouqijielun:", "fenhuaqi", "zhouqijielun:", "huoyueqi">> }

NextAI ==
    \/ analyzeSentimentCycle
    \/ callAI
    \/ \E res \in AnalyzeResponses : AnalyzeDone(1, res)
    \/ \E text \in AITexts : CallAIDone(1, text)
    \/ AIFailure
    \/ \E d \in DateInputsIO : EditDate(d)
    \/ FieldEditIO
    \/ handleSave
    \/ \E k \in 1..(NumDatesIO + 1) : LoadArchive(k)

SpecAI == Init /\ [][NextAI]_vars

\* The first place of a response where the heading is followed by a stage
\* name, 0 when there is none.
FirstConclusion(res) ==
    IF \E j \in 1..(Len(res) - 1) : res[j] = "zhouqijielun:" /\ res[j + 1] \in StageNames
    THEN CHOOSE j \in 1..(Len(res) - 1) :
            /\ res[j] = "zhouqijielun:" /\ res[j + 1] \in StageNames
            /\ \A m \in 1..(j - 1) : ~(res[m] = "zhouqijielun:" /\ res[m + 1] \in StageNames)
    ELSE 0

\* C25: a successful analyzeSentimentCycle leaves one of the four stage
\* names in stage: the name that follows the heading in the response when
\* there is one, and hundunqi otherwise; aiAnalysis is the new text followed
\* by the previous aiAnalysis.
C25_StageAndAnalysis ==
    [][ \A res \in AnalyzeResponses :
            AnalyzeDone(1, res) =>
                LET at == FirstConclusion(res)
                    new == review'.aiAnalysis
                    old == review.aiAnalysis
                IN  /\ review'.stage \in StageNames
                    /\ review'.stage = IF at = 0 THEN "hundunqi" ELSE res[at + 1]
                    /\ Len(new) > Len(old) + Len(res)
                    /\ SubSeq(new, 2, Len(res) + 1) = res
                    /\ SubSeq(new, Len(new) - Len(old) + 1, Len(new)) = old ]_vars

\* A second analysis stands before the first, and took the first of the two
\* stage names of its response.
C25_Witness ==
    /\ lastOp = "ai_done"
    /\ review.stage = "fenhuaqi"
    /\ Len(review.aiAnalysis) > 9

\* C26: a successful callAI changes aiAnalysis and nothing else of the
\* working record, whatever was edited while the request was in flight, and
\* leaves the store, the persisted blob and the uploaded files as they were.
C26_CallAIWritesAnalysisOnly ==
    [][ \A text \in AITexts :
            CallAIDone(1, text) =>
                /\ [review' EXCEPT !.aiAnalysis = review.aiAnalysis] = review
                /\ heap' = heap
                /\ history' = history
                /\ blob' = blob
                /\ uploadedFiles' = uploadedFiles ]_vars

\* A strategy call has completed on a record whose date was edited.
C26_Witness ==
    /\ lastOp = "ai_done"
    /\ review.aiAnalysis = <<"T">>
    /\ review.date # Today

-----------------------------------------------------------------------------
\* The upload specification: two FileLists of distinguishable files, read
\* at the same time.  The second FileList is chosen while the first is being
\* read, and the first is not chosen again while a file of the second is
\* listed or being read: every file of the second FileList was chosen after
\* every file of the first that is listed with it.

TextFileNamed(n) == [name |-> n, type |-> "text/plain"]

FirstFiles == [j \in 1..6 |-> TextFileNamed(<<"a1", "a2", "a3", "a4", "a5", "a6">>[j])]

SecondFiles == [j \in 1..6 |-> TextFileNamed(<<"b1", "b2", "b3", "b4", "b5", "b6">>[j])]

IsOf(files, uploaded) == \E j \in 1..Len(files) : files[j].name = uploaded.name

BeingRead(files) == \E i \in 1..Len(reads) : reads[i] = files

Listed(files) == \E p \in 1..Len(uploadedFiles) : IsOf(files, uploadedFiles[p])

ChooseFirst ==
    /\ ~BeingRead(SecondFiles)
    /\ ~Listed(SecondFiles)
    /\ handleFileChange(FirstFiles)

ChooseSecond ==
    /\ BeingRead(FirstFiles)
    /\ handleFileChange(SecondFiles)

\* The remove buttons of the first and of the seventh file.
RemoveIndexesFiles == {0, 6}

NextFiles ==
    \/ ChooseFirst
    \/ ChooseSecond
    \/ \E i \in 1..MaxReads : FileReadDone(i)
    \/ \E i \in 1..MaxReads : FileReadFail(i)
    \/ \E index \in RemoveIndexesFiles : removeFile(index)

SpecFiles == Init /\ [][NextFiles]_vars

\* C19 (as claimed): the uploaded-file list never holds more than ten files,
\* and its files are in the order of their upload: no file chosen later
\* stands before a file chosen earlier, so that the files dropped on
\* overflow are the oldest ones, also while two FileLists are being read at
\* the same time and with removals in between.
C19_NewestTenInUploadOrder ==
    /\ Len(uploadedFiles) <= KeptFiles
    /\ \A p, q \in 1..Len(uploadedFiles) :
          p < q => ~(IsOf(SecondFiles, uploadedFiles[p]) /\ IsOf(FirstFiles, uploadedFiles[q]))

-----------------------------------------------------------------------------
\* The Score/Stage Classifier.  It belongs to a variant of the application
\* whose code is not among the sources; the sources only declare its inputs
\* (src/unnamed/part_000:63-64).  It is written here from section 4.2 of the
\* specification.

Trends == {"flat", "v_reversal", "cliff_drop"}

\* Mutation: the rules are an else-if chain, only the first one that fires
\* is applied.
ClassifierSum_ShortCircuit(in) ==
    50 + (IF in.trend = "v_reversal" THEN 20
          ELSE IF in.trend = "cliff_drop" THEN -25
          ELSE IF in.yesterdayGain > 5 THEN 15
          ELSE IF in.yesterdayGain < -2 THEN -20
          ELSE IF in.nuclearCount > 10 THEN -15
          ELSE IF in.limitUpCount > 80 THEN 10
          ELSE IF in.limitUpCount < 20 THEN -10
          ELSE IF in.limitDownCount > 15 THEN -20
          ELSE IF in.promotionRate > 50 THEN 10
          ELSE 0)

\* Baseline 50 and the adjustments, each gated by one field, all evaluated.
ClassifierSum(in) ==
    50 + (IF in.trend = "v_reversal" THEN 20 ELSE 0)
       + (IF in.trend = "cliff_drop" THEN -25 ELSE 0)
       + (IF in.yesterdayGain > 5 THEN 15 ELSE 0)
       + (IF in.yesterdayGain < -2 THEN -20 ELSE 0)
       + (IF in.nuclearCount > 10 THEN -15 ELSE 0)
       + (IF in.limitUpCount > 80 THEN 10 ELSE 0)
       + (IF in.limitUpCount < 20 THEN -10 ELSE 0)
       + (IF in.limitDownCount > 15 THEN -20 ELSE 0)
       + (IF in.promotionRate > 50 THEN 10 ELSE 0)

\* Mutation: only the upper end is clamped.
Clamp_NoFloor(x) == Min(100, x)

\* Clamp result to [0, 100].
Clamp(x) == Max(0, Min(100, x))

\* The band of a clamped score.  The specification names the mid range
\* (35, 50), where a positive yesterdayGain overrides the label, and the
\* lowest band; the bands here are those: up to the mid range, the mid
\* range, above it.
ClassifierStage(score, yesterdayGain) ==
    IF score > 35 /\ score < 50
    THEN IF yesterdayGain > 0 THEN "mid_positive" ELSE "mid"
    ELSE IF score <= 35 THEN "bingdian" ELSE "upper"

Classifier(in) ==
    LET sum == ClassifierSum(in)
        score == Clamp(sum)
    IN  [sum |-> sum, score |-> score, stage |-> ClassifierStage(score, in.yesterdayGain)]

\* The classifier specification: the inputs around every threshold.
ClsInputs ==
    [ trend : Trends,
      yesterdayGain : {-3, -2, 5, 6},
      nuclearCount : {10, 12},
      limitUpCount : {15, 20, 80, 81},
      limitDownCount : {15, 18},
      promotionRate : {10, 50, 51} ]

InitCls ==
    /\ variant = "v275"
    /\ InitApp
    /\ PsIdle
    /\ clsIn \in ClsInputs
    /\ clsOut = [done |-> FALSE, sum |-> 0, score |-> 0, stage |-> ""]

Classify ==
    /\ ~clsOut.done
    /\ clsOut' = [done |-> TRUE] @@ Classifier(clsIn)
    /\ UNCHANGED <<appVars, psVars, clsIn>>

NextCls == Classify

SpecCls == InitCls /\ [][NextCls]_vars

\* The adjustment of each rule for an input, 0 when the rule does not fire.
RuleDeltas(in) ==
    << IF in.trend = "v_reversal" THEN 20 ELSE 0,
       IF in.trend = "cliff_drop" THEN -25 ELSE 0,
       IF in.yesterdayGain >= 6 THEN 15 ELSE 0,
       IF in.yesterdayGain <= -3 THEN -20 ELSE 0,
       IF in.nuclearCount >= 11 THEN -15 ELSE 0,
       IF in.limitUpCount >= 81 THEN 10 ELSE 0,
       IF in.limitUpCount <= 19 THEN -10 ELSE 0,
       IF in.limitDownCount >= 16 THEN -20 ELSE 0,
       IF in.promotionRate >= 51 THEN 10 ELSE 0 >>

RECURSIVE SumSeq(_)
SumSeq(q) == IF q = <<>> THEN 0 ELSE Head(q) + SumSeq(Tail(q))

\* C21: for every combination of inputs the score is in 0..100: it is 50
\* plus the adjustments of the rules that fire, brought to 0 when the sum is
\* below 0 and to 100 when it is above 100.
C21_ScoreClamped ==
    clsOut.done =>
        LET sum == 50 + SumSeq(RuleDeltas(clsIn)) IN
        /\ clsOut.score \in 0..100
        /\ (sum \in 0..100 => clsOut.score = sum)
        /\ (sum < 0 => clsOut.score = 0)
        /\ (sum > 100 => clsOut.score = 100)

\* A sum below 0 has been clamped.
C21_Witness == clsOut.done /\ clsOut.sum < 0 /\ clsOut.score = 0

\* The input of the specification's third scenario.
ScenarioInput ==
    [trend |-> "cliff_drop", yesterdayGain |-> -3, nuclearCount |-> 12,
     limitUpCount |-> 15, limitDownCount |-> 18, promotionRate |-> 10]

\* Every field at its threshold.
AtThresholds(in) ==
    /\ in.trend = "flat"
    /\ in.yesterdayGain \in {-2, 5}
    /\ in.nuclearCount = 10
    /\ in.limitUpCount \in {20, 80}
    /\ in.limitDownCount = 15
    /\ in.promotionRate = 50

\* C22 (as claimed): for the scenario input the unclamped sum is -20, the
\* score 0 and the stage the lowest band's; a field at its threshold fires
\* no rule.
C22_StackedSumMinus20 ==
    clsOut.done =>
        /\ (clsIn = ScenarioInput =>
               clsOut.sum = -20 /\ clsOut.score = 0 /\ clsOut.stage = "bingdian")
        /\ (AtThresholds(clsIn) => clsOut.sum = 50)

\* C22 (amended): for the scenario input the five rules that fire stack to
\* the unclamped sum 50 - 25 - 20 - 15 - 10 - 20 = -40, the score is 0 and
\* the stage the lowest band's; a field at its threshold fires no rule.
C22_StackedSumMinus40 ==
    clsOut.done =>
        /\ (clsIn = ScenarioInput =>
               clsOut.sum = -40 /\ clsOut.score = 0 /\ clsOut.stage = "bingdian")
        /\ (AtThresholds(clsIn) => clsOut.sum = 50)

C22_Witness == clsOut.done /\ clsIn = ScenarioInput

-----------------------------------------------------------------------------
\* The dates, among the working record and the considered stored records,
\* of the records whose sector names include `name`.
DatesWith(name) ==
    LET holds(rec) == Multiplicity(SectorNames(variant, rec, heap), name) > 0
        last5 == Last5(history)
    IN  (IF holds(review) THEN {review.date} ELSE {})
          \cup {last5[k].date : k \in {j \in 1..Len(last5) : holds(last5[j])}}

\* C27 (as claimed): while the store holds a record with the working record's
\* date, that day counts once: the count reported for a name is at most the
\* number of distinct dates on which the name appears.
C27_SameDayCountedOnce ==
    (\E k \in 1..Len(history) : history[k].date = review.date) =>
        LET reported == PersistentNow IN
        \A i \in 1..Len(reported) :
            reported[i][2] <= Cardinality(DatesWith(reported[i][1]))

-----------------------------------------------------------------------------
\* The records of a store whose date is not d, in store order.
NotDated(h, d) == LET other(x) == x.date # d IN SelectSeq(h, other)

C29_SaveIdempotent ==
    [][ (handleSave /\ lastOp \in {"save_new", "save_replace"}) =>
          /\ history' = history
          /\ Stringify(variant, history', heap') = Stringify(variant, history, heap)
          /\ blob' = blob ]_vars

\* The untouched initial record has been saved into a store that held it.
C29_Witness ==
    /\ lastOp = "save_replace"
    /\ review = INITIAL_REVIEW(variant)
    /\ heap = InitialHeap(variant)
    /\ Len(history) = 1

=============================================================================
